---- MODULE Spec2Model ----
(***************************************************************************)
(* A model of the Adafruit Bluefruit LE Connect controller protocol        *)
(* parser (src/src/lib.rs and the per-event decoders next to it).          *)
(*                                                                         *)
(* Bytes are the integers 0..255.  A slice is a sequence of bytes; Rust's  *)
(* 0-based index i of a slice s is s[i + 1] here.  An f32 is kept as its   *)
(* 32-bit pattern, split in two 16-bit halves <<bits 31..16, bits 15..0>>  *)
(* (a 32-bit pattern does not fit the model checker's integers).           *)
(* A Result is [ok |-> TRUE, val |-> v] or [ok |-> FALSE, val |-> e].      *)
(***************************************************************************)
EXTENDS Integers, Sequences, FiniteSets, TLC

VARIABLES
    build,    \* the cargo features of the build: result container, its bound, event kinds
    input,    \* parse: the borrowed input slice
    pos,      \* parse: the loop variable of `for pos in 0..input.len()`
    state,    \* parse: ParserState
    result,   \* parse: the result vector
    pc,       \* parse: "loop" inside the for loop, "done" once parse has returned
    call,     \* a direct call of one of the crate's functions: [fn, data, crc]
    ret       \* what the direct call returned (NoRet before it returns)

vars == <<build, input, pos, state, result, pc, call, ret>>

parseVars == <<build, input, pos, state, result, pc>>

callVars == <<call, ret>>

-----------------------------------------------------------------------------
(* Values *)

Byte == 0..255

Ok(v) == [ok |-> TRUE, val |-> v]

Err(e) == [ok |-> FALSE, val |-> e]

Some(b) == <<b>>

None == <<>>

\* ProtocolParseError
UnknownEvent(opt) == [err |-> "UnknownEvent", id |-> opt]

DisabledControllerDataPackageType(command) ==
    [err |-> "DisabledControllerDataPackageType", command |-> command]

ButtonParseError(e) == [err |-> "ButtonParseError", source |-> e]

InvalidLength(expected, actual) ==
    [err |-> "InvalidLength", expected |-> expected, actual |-> actual]

InvalidCrc(received, calculated) ==
    [err |-> "InvalidCrc", received |-> received, calculated |-> calculated]

InvalidFloatSize(length) == [err |-> "InvalidFloatSize", length |-> length]

\* ButtonParseError (button_event.rs)
UnknownButton(b) == [err |-> "UnknownButton", byte |-> b]

UnknownButtonState(b) == [err |-> "UnknownButtonState", byte |-> b]

ControllerDataPackageType ==
    {"ButtonCommand", "Color", "Quaternion", "Accelerometer", "Gyro",
     "Magnetometer", "Location"}

\* input[from .. to) with Rust's 0-based bounds
Slice(s, from, to) == SubSeq(s, from + 1, to)

Min(a, b) == IF a < b THEN a ELSE b

\* s[i] is in bounds (a slice index out of bounds panics)
index_ok(s, i) == 0 <= i /\ i < Len(s)

\* s[from..to] is in bounds (from > to or to > len panics)
range_ok(s, from, to) == 0 <= from /\ from <= to /\ to <= Len(s)

-----------------------------------------------------------------------------
(* lib.rs: constants and the command table *)

BYTES_PER_FLOAT == 4

data_len(command) ==
    CASE command = "ButtonCommand" -> 2
      [] command = "Color"         -> 3
      [] command = "Quaternion"    -> 4 * BYTES_PER_FLOAT
      [] command = "Accelerometer" -> 3 * BYTES_PER_FLOAT
      [] command = "Gyro"          -> 3 * BYTES_PER_FLOAT
      [] command = "Magnetometer"  -> 3 * BYTES_PER_FLOAT
      [] command = "Location"      -> 3 * BYTES_PER_FLOAT

\* mutant: the lower-case b'b' is taken for a button command too
ControllerDataPackageType_try_from_any_case(value) ==
    CASE value \in {66, 98} -> Ok("ButtonCommand")
      [] value = 67 -> Ok("Color")
      [] value = 81 -> Ok("Quaternion")
      [] value = 65 -> Ok("Accelerometer")
      [] value = 71 -> Ok("Gyro")
      [] value = 77 -> Ok("Magnetometer")
      [] value = 76 -> Ok("Location")
      [] OTHER      -> Err(UnknownEvent(Some(value)))

\* impl TryFrom<u8> for ControllerDataPackageType
ControllerDataPackageType_try_from(value) ==
    CASE value = 66 -> Ok("ButtonCommand")      \* b'B'
      [] value = 67 -> Ok("Color")              \* b'C'
      [] value = 81 -> Ok("Quaternion")         \* b'Q'
      [] value = 65 -> Ok("Accelerometer")      \* b'A'
      [] value = 71 -> Ok("Gyro")               \* b'G'
      [] value = 77 -> Ok("Magnetometer")       \* b'M'
      [] value = 76 -> Ok("Location")           \* b'L'
      [] OTHER      -> Err(UnknownEvent(Some(value)))

-----------------------------------------------------------------------------
(* lib.rs: check_crc *)

U16 == 65536

\* mutant: every byte is weighted by its position in the frame
RECURSIVE crc_sum_weighted(_)
crc_sum_weighted(data) ==
    IF data = <<>> THEN 0
    ELSE (crc_sum_weighted(SubSeq(data, 1, Len(data) - 1))
          + data[Len(data)] * Len(data)) % 65536

\* mutant: the accumulator has 8 bits
RECURSIVE crc_sum_u8(_)
crc_sum_u8(data) ==
    IF data = <<>> THEN 0
    ELSE (crc_sum_u8(SubSeq(data, 1, Len(data) - 1)) + data[Len(data)]) % 256

\* `for byte in data { sum += *byte as u16; }` with sum: u16 starting at 0
\* (the sum of fewer than 258 bytes stays below 2^16: within the bounds of this
\* model the addition never overflows, in a debug or a release build)
RECURSIVE crc_sum(_)
crc_sum(data) ==
    IF data = <<>> THEN 0
    ELSE (crc_sum(SubSeq(data, 1, Len(data) - 1)) + data[Len(data)]) % U16

\* `sum += *byte as u16` overflows at some byte of data (a build with overflow
\* checks panics there, a build without them wraps around)
RECURSIVE crc_sum_overflows(_)
crc_sum_overflows(data) ==
    IF data = <<>> THEN FALSE
    ELSE \/ crc_sum_overflows(SubSeq(data, 1, Len(data) - 1))
         \/ crc_sum(SubSeq(data, 1, Len(data) - 1)) + data[Len(data)] >= U16

\* mutant: the complement is left out
crc_and_ff(sum) == sum % 256

\* mutant: the mask drops the top bit of the checksum
crc_not_and_7f(sum) == ((U16 - 1) - sum) % 128

\* `!sum & 0xff` on a u16
crc_not_and_ff(sum) == ((U16 - 1) - sum) % 256

\* mutant: the checksum byte is not compared
check_crc_always_ok(data, crc) == Ok(<<>>)

check_crc(data, crc) ==
    LET calculated_crc == crc_not_and_ff(crc_sum(data))
    IN  IF crc = calculated_crc
        THEN Ok(<<>>)
        ELSE Err(InvalidCrc(crc, calculated_crc))

-----------------------------------------------------------------------------
(* lib.rs: try_f32_from_le_bytes *)

\* mutant: the bytes are read most significant first
f32_from_be_bytes(b) == <<b[1] * 256 + b[2], b[3] * 256 + b[4]>>

\* f32::from_le_bytes: byte 0 is the least significant byte of the pattern
f32_from_le_bytes(b) == <<b[4] * 256 + b[3], b[2] * 256 + b[1]>>

\* mutant: a slice of more than 4 bytes is accepted, its first 4 bytes are read
try_f32_from_le_bytes_at_least(bytes) ==
    IF Len(bytes) >= 4
    THEN Ok(f32_from_le_bytes(bytes))
    ELSE Err(InvalidFloatSize(Len(bytes)))

try_f32_from_le_bytes(bytes) ==
    IF Len(bytes) = 4
    THEN Ok(f32_from_le_bytes(bytes))
    ELSE Err(InvalidFloatSize(Len(bytes)))

-----------------------------------------------------------------------------
(* button_event.rs *)

Button_from_id(b) ==
    CASE b = 49 -> Ok("Button1")     \* b'1'
      [] b = 50 -> Ok("Button2")
      [] b = 51 -> Ok("Button3")
      [] b = 52 -> Ok("Button4")
      [] b = 53 -> Ok("Up")
      [] b = 54 -> Ok("Down")
      [] b = 55 -> Ok("Left")
      [] b = 56 -> Ok("Right")       \* b'8'
      [] OTHER  -> Err(UnknownButton(b))

ButtonState_from_id(b) ==
    CASE b = 48 -> Ok("Released")    \* b'0'
      [] b = 49 -> Ok("Pressed")     \* b'1'
      [] OTHER  -> Err(UnknownButtonState(b))

\* mutant: the state byte is converted before the button byte
ButtonEvent_try_from_state_first(data) ==
    LET expected_len == 2
    IN  IF Len(data) # expected_len
        THEN Err(InvalidLength(expected_len, Len(data)))
        ELSE LET button == Button_from_id(data[1])
                 bstate == ButtonState_from_id(data[2])
             IN  IF ~bstate.ok THEN Err(ButtonParseError(bstate.val))
                 ELSE IF ~button.ok THEN Err(ButtonParseError(button.val))
                 ELSE Ok([kind |-> "ButtonEvent", button |-> button.val,
                          state |-> bstate.val])

ButtonEvent_try_from(data) ==
    LET expected_len == 2
    IN  IF Len(data) # expected_len
        THEN Err(InvalidLength(expected_len, Len(data)))
        ELSE LET button == Button_from_id(data[1])
                 bstate == ButtonState_from_id(data[2])
             IN  IF ~button.ok THEN Err(ButtonParseError(button.val))
                 ELSE IF ~bstate.ok THEN Err(ButtonParseError(bstate.val))
                 ELSE Ok([kind |-> "ButtonEvent", button |-> button.val,
                          state |-> bstate.val])

-----------------------------------------------------------------------------
(* color_event.rs *)

\* mutant: a slice longer than the payload is accepted
ColorEvent_try_from_at_least(data) ==
    LET expected_len == 3
    IN  IF Len(data) < expected_len
        THEN Err(InvalidLength(expected_len, Len(data)))
        ELSE Ok([kind |-> "ColorEvent", red |-> data[1], green |-> data[2],
                 blue |-> data[3]])

ColorEvent_try_from(data) ==
    LET expected_len == 3
    IN  IF Len(data) # expected_len
        THEN Err(InvalidLength(expected_len, Len(data)))
        ELSE Ok([kind |-> "ColorEvent", red |-> data[1], green |-> data[2],
                 blue |-> data[3]])

-----------------------------------------------------------------------------
(* quaternion_event.rs, accelerometer_event.rs, gyro_event.rs,             *)
(* magnetometer_event.rs, location_event.rs                                *)

QuaternionEvent_try_from(data) ==
    LET expected_len == 4 * BYTES_PER_FLOAT
    IN  IF Len(data) # expected_len
        THEN Err(InvalidLength(expected_len, Len(data)))
        ELSE LET x == try_f32_from_le_bytes(Slice(data, 0, 4))
                 y == try_f32_from_le_bytes(Slice(data, 4, 8))
                 z == try_f32_from_le_bytes(Slice(data, 8, 12))
                 w == try_f32_from_le_bytes(Slice(data, 12, 16))
             IN  IF ~x.ok THEN x
                 ELSE IF ~y.ok THEN y
                 ELSE IF ~z.ok THEN z
                 ELSE IF ~w.ok THEN w
                 ELSE Ok([kind |-> "QuaternionEvent", x |-> x.val, y |-> y.val,
                          z |-> z.val, w |-> w.val])

\* the body shared by the three x, y, z decoders (they differ in the type's name only)
xyz_try_from(kind, data) ==
    LET expected_len == 3 * BYTES_PER_FLOAT
    IN  IF Len(data) # expected_len
        THEN Err(InvalidLength(expected_len, Len(data)))
        ELSE LET x == try_f32_from_le_bytes(Slice(data, 0, 4))
                 y == try_f32_from_le_bytes(Slice(data, 4, 8))
                 z == try_f32_from_le_bytes(Slice(data, 8, 12))
             IN  IF ~x.ok THEN x
                 ELSE IF ~y.ok THEN y
                 ELSE IF ~z.ok THEN z
                 ELSE Ok([kind |-> kind, x |-> x.val, y |-> y.val, z |-> z.val])

AccelerometerEvent_try_from(data) == xyz_try_from("AccelerometerEvent", data)

GyroEvent_try_from(data) == xyz_try_from("GyroEvent", data)

MagnetometerEvent_try_from(data) == xyz_try_from("MagnetometerEvent", data)

\* mutant: longitude is read before latitude
LocationEvent_try_from_swapped(data) ==
    LET expected_len == 3 * BYTES_PER_FLOAT
    IN  IF Len(data) # expected_len
        THEN Err(InvalidLength(expected_len, Len(data)))
        ELSE LET longitude == try_f32_from_le_bytes(Slice(data, 0, 4))
                 latitude  == try_f32_from_le_bytes(Slice(data, 4, 8))
                 altitude  == try_f32_from_le_bytes(Slice(data, 8, 12))
             IN  IF ~latitude.ok THEN latitude
                 ELSE IF ~longitude.ok THEN longitude
                 ELSE IF ~altitude.ok THEN altitude
                 ELSE Ok([kind |-> "LocationEvent", latitude |-> latitude.val,
                          longitude |-> longitude.val, altitude |-> altitude.val])

LocationEvent_try_from(data) ==
    LET expected_len == 3 * BYTES_PER_FLOAT
    IN  IF Len(data) # expected_len
        THEN Err(InvalidLength(expected_len, Len(data)))
        ELSE LET latitude  == try_f32_from_le_bytes(Slice(data, 0, 4))
                 longitude == try_f32_from_le_bytes(Slice(data, 4, 8))
                 altitude  == try_f32_from_le_bytes(Slice(data, 8, 12))
             IN  IF ~latitude.ok THEN latitude
                 ELSE IF ~longitude.ok THEN longitude
                 ELSE IF ~altitude.ok THEN altitude
                 ELSE Ok([kind |-> "LocationEvent", latitude |-> latitude.val,
                          longitude |-> longitude.val, altitude |-> altitude.val])

-----------------------------------------------------------------------------
(* The index and slice operations of the decoders: each *_panics operator   *)
(* is true when an operation the function reaches is out of bounds.         *)

\* <[u8; 4]>::try_from(input) copies the slice, it does not index it
try_f32_from_le_bytes_panics(bytes) == FALSE

\* input[0], input[1] in the else branch
ButtonEvent_try_from_panics(data) ==
    Len(data) = 2 /\ ~(index_ok(data, 0) /\ index_ok(data, 1))

\* input[0], input[1], input[2] in the else branch
ColorEvent_try_from_panics(data) ==
    Len(data) = 3 /\ ~(index_ok(data, 0) /\ index_ok(data, 1) /\ index_ok(data, 2))

\* &input[0..4], [4..8], [8..12], [12..16] in the else branch
QuaternionEvent_try_from_panics(data) ==
    Len(data) = 4 * BYTES_PER_FLOAT
    /\ ~(range_ok(data, 0, 4) /\ range_ok(data, 4, 8) /\ range_ok(data, 8, 12)
         /\ range_ok(data, 12, 16))

\* &input[0..4], [4..8], [8..12] in the else branch (accelerometer, gyro,
\* magnetometer, location)
xyz_try_from_panics(data) ==
    Len(data) = 3 * BYTES_PER_FLOAT
    /\ ~(range_ok(data, 0, 4) /\ range_ok(data, 4, 8) /\ range_ok(data, 8, 12))

decode_data_panics(features, command, data) ==
    /\ command \in features
    /\ CASE command = "ButtonCommand" -> ButtonEvent_try_from_panics(data)
         [] command = "Color"         -> ColorEvent_try_from_panics(data)
         [] command = "Quaternion"    -> QuaternionEvent_try_from_panics(data)
         [] OTHER                     -> xyz_try_from_panics(data)

-----------------------------------------------------------------------------
(* lib.rs: parse_command, extract_and_parse_command *)

\* the `match command` of parse_command: the decoder of an enabled kind, or
\* DisabledControllerDataPackageType for a kind the build leaves out
decode_data(features, command, data) ==
    IF command \notin features
    THEN Err(DisabledControllerDataPackageType(command))
    ELSE CASE command = "ButtonCommand" -> ButtonEvent_try_from(data)
           [] command = "Color"         -> ColorEvent_try_from(data)
           [] command = "Quaternion"    -> QuaternionEvent_try_from(data)
           [] command = "Accelerometer" -> AccelerometerEvent_try_from(data)
           [] command = "Gyro"          -> GyroEvent_try_from(data)
           [] command = "Magnetometer"  -> MagnetometerEvent_try_from(data)
           [] command = "Location"      -> LocationEvent_try_from(data)

\* mutant: the expected length leaves out the checksum byte
parse_command_short_expected(features, command, command_input) ==
    LET len          == Len(command_input)
        expected_len == data_len(command) + 2
    IN  IF len # expected_len
        THEN Err(InvalidLength(expected_len, len))
        ELSE LET crc     == command_input[(len - 1) + 1]
                 checked == check_crc(Slice(command_input, 0, len - 1), crc)
             IN  IF ~checked.ok
                 THEN checked
                 ELSE decode_data(features, command, Slice(command_input, 2, len - 1))

\* mutant: the payload is decoded before the checksum is checked
parse_command_decode_first(features, command, command_input) ==
    LET len          == Len(command_input)
        expected_len == data_len(command) + 3
    IN  IF len # expected_len
        THEN Err(InvalidLength(expected_len, len))
        ELSE LET decoded == decode_data(features, command,
                                        Slice(command_input, 2, len - 1))
                 checked == check_crc(Slice(command_input, 0, len - 1),
                                      command_input[len])
             IN  IF ~decoded.ok THEN decoded
                 ELSE IF ~checked.ok THEN checked
                 ELSE decoded

\* mutant: the payload slice handed to the decoder includes the checksum byte
parse_command_payload_with_crc(features, command, command_input) ==
    LET len          == Len(command_input)
        expected_len == data_len(command) + 3
    IN  IF len # expected_len
        THEN Err(InvalidLength(expected_len, len))
        ELSE LET checked == check_crc(Slice(command_input, 0, len - 1),
                                      command_input[len])
             IN  IF ~checked.ok
                 THEN checked
                 ELSE decode_data(features, command, Slice(command_input, 2, len))

\* mutant: a kind the build leaves out is refused before length and checksum
parse_command_disabled_first(features, command, command_input) ==
    LET len          == Len(command_input)
        expected_len == data_len(command) + 3
    IN  IF command \notin features
        THEN Err(DisabledControllerDataPackageType(command))
        ELSE IF len # expected_len
        THEN Err(InvalidLength(expected_len, len))
        ELSE LET checked == check_crc(Slice(command_input, 0, len - 1),
                                      command_input[len])
             IN  IF ~checked.ok
                 THEN checked
                 ELSE decode_data(features, command, Slice(command_input, 2, len - 1))

parse_command(features, command, command_input) ==
    LET len          == Len(command_input)
        expected_len == data_len(command) + 3
    IN  IF len # expected_len
        THEN Err(InvalidLength(expected_len, len))
        ELSE LET data_start == 2
                 data_end   == len - 2
                 crc        == command_input[(len - 1) + 1]
                 checked    == check_crc(Slice(command_input, 0, data_end + 1), crc)
             IN  IF ~checked.ok
                 THEN checked
                 ELSE decode_data(features, command,
                                  Slice(command_input, data_start, data_end + 1))

\* mutant: the candidate frame is one byte too long
extract_and_parse_command_long(features, slice) ==
    LET command == ControllerDataPackageType_try_from(slice[1 + 1])
    IN  IF ~command.ok
        THEN command
        ELSE LET command_end == Min(data_len(command.val) + 3, Len(slice) - 1)
             IN  parse_command(features, command.val, Slice(slice, 0, command_end + 1))

\* mutant: the end of the candidate frame is not limited to the buffer
command_end_unclamped(command, slice) == data_len(command) + 2

\* mutant: the candidate frame ends before the next marker byte
command_end_at_marker(command, slice) ==
    LET full == Min(data_len(command) + 2, Len(slice) - 1)
        ms   == {k \in 2..full : slice[k + 1] = 33}
    IN  IF ms = {} THEN full
        ELSE (CHOOSE k \in ms : \A j \in ms : k <= j) - 1

\* let command_end = min(command.data_len() + 2, input.len() - 1);
command_end(command, slice) == Min(data_len(command) + 2, Len(slice) - 1)

\* mutant: the checksum byte is taken from the end of the buffer
extract_and_parse_command_crc_at_end(features, slice) ==
    LET command == ControllerDataPackageType_try_from(slice[1 + 1])
    IN  IF ~command.ok
        THEN command
        ELSE parse_command(features, command.val,
                           Append(Slice(slice, 0, command_end(command.val, slice)),
                                  slice[Len(slice)]))

extract_and_parse_command(features, slice) ==
    LET command == ControllerDataPackageType_try_from(slice[1 + 1])
    IN  IF ~command.ok
        THEN command
        ELSE parse_command(features, command.val,
                           Slice(slice, 0, command_end(command.val, slice) + 1))

\* len - 2, command_input[len - 1], [..=data_end], [data_start..=data_end], and
\* the decoder's own operations, all after the length check
parse_command_panics(features, command, command_input) ==
    LET len == Len(command_input)
    IN  /\ len = data_len(command) + 3
        /\ \/ len - 2 < 0
           \/ ~index_ok(command_input, len - 1)
           \/ ~range_ok(command_input, 0, (len - 2) + 1)
           \/ ~range_ok(command_input, 2, (len - 2) + 1)
           \/ crc_sum_overflows(Slice(command_input, 0, len - 1))
           \/ /\ check_crc(Slice(command_input, 0, len - 1), command_input[len]).ok
              /\ decode_data_panics(features, command, Slice(command_input, 2, len - 1))

\* input[1], input.len() - 1, &input[..=command_end], then parse_command
extract_and_parse_command_panics(features, slice) ==
    \/ ~index_ok(slice, 1)
    \/ LET command == ControllerDataPackageType_try_from(slice[1 + 1])
       IN  /\ command.ok
           /\ \/ Len(slice) - 1 < 0
              \/ ~range_ok(slice, 0, command_end(command.val, slice) + 1)
              \/ parse_command_panics(features, command.val,
                      Slice(slice, 0, command_end(command.val, slice) + 1))

\* the ParseCommand arm of parse: pos - 1, &input[(pos - 1)..], then
\* extract_and_parse_command
parse_panics(features, buf, p) ==
    \/ p - 1 < 0
    \/ ~range_ok(buf, p - 1, Len(buf))
    \/ extract_and_parse_command_panics(features, Slice(buf, p - 1, Len(buf)))

-----------------------------------------------------------------------------
(* Builds: the cargo features (lib.rs lines 23-38, 212-219) *)

\* feature "alloc", every event kind selected (the default features)
AllocBuild ==
    [heapless |-> FALSE, MAX_RESULTS |-> 0, features |-> ControllerDataPackageType]

-----------------------------------------------------------------------------
(* The encoder side of the wire format, used to build the input buffers:   *)
(* '!' + command id + payload + checksum.                                  *)

Marker == 33

RECURSIVE SumBytes(_)
SumBytes(s) == IF s = <<>> THEN 0 ELSE Head(s) + SumBytes(Tail(s))

\* (~sum of the preceding bytes) & 0xFF
Checksum(body) == 255 - (SumBytes(body) % 256)

Frame(id, payload) ==
    LET body == <<Marker, id>> \o payload IN Append(body, Checksum(body))

\* the frame with its checksum byte replaced by a wrong one
WrongCrc(frame) ==
    [frame EXCEPT ![Len(frame)] = (frame[Len(frame)] + 1) % 256]

\* n bytes, all `base` but `c` at (1-based) position j
OneHot(n, j, c, base) == [i \in 1..n |-> IF i = j THEN c ELSE base]

\* n bytes, all different
Ramp(n) == [i \in 1..n |-> (17 * i) % 256]

IdOf(command) ==
    CASE command = "ButtonCommand" -> 66
      [] command = "Color"         -> 67
      [] command = "Quaternion"    -> 81
      [] command = "Accelerometer" -> 65
      [] command = "Gyro"          -> 71
      [] command = "Magnetometer"  -> 77
      [] command = "Location"      -> 76

PayloadLen(command) ==
    CASE command = "ButtonCommand" -> 2
      [] command = "Color"         -> 3
      [] command = "Quaternion"    -> 16
      [] command = "Accelerometer" -> 12
      [] command = "Gyro"          -> 12
      [] command = "Magnetometer"  -> 12
      [] command = "Location"      -> 12

FloatKinds == {"Quaternion", "Accelerometer", "Gyro", "Magnetometer", "Location"}

ButtonPayloads == {<<b, s>> : b \in 49..56, s \in {48, 49}}

\* button payloads with an unknown button, an unknown state, or both
BadButtonPayloads ==
    {<<b, s>> : b \in {48, 49, 57}, s \in {49, 50, 51}} \ ButtonPayloads

\* 33 is the marker; <<122, 0, 0>> gives a colour frame whose checksum byte is the marker
ColorBytes == {0, 33, 122}

ColorPayloads == {<<r, g, b>> : r \in ColorBytes, g \in ColorBytes, b \in ColorBytes}

FloatBytes == {33, 255}

FloatPayloads(command) ==
    {OneHot(PayloadLen(command), j, c, 0) :
        j \in 1..PayloadLen(command), c \in FloatBytes}
    \cup {Ramp(PayloadLen(command))}

ValidPayloads(command) ==
    CASE command = "ButtonCommand" -> ButtonPayloads
      [] command = "Color"         -> ColorPayloads
      [] OTHER                     -> FloatPayloads(command)

ValidFramesOf(command) == {Frame(IdOf(command), p) : p \in ValidPayloads(command)}

ValidFrames == UNION {ValidFramesOf(command) : command \in ControllerDataPackageType}

\* one plain frame of each kind
KindFrames ==
    {Frame(66, <<49, 49>>), Frame(67, <<1, 2, 3>>)}
    \cup {Frame(IdOf(command), Ramp(PayloadLen(command))) : command \in FloatKinds}

\* "!B11:", "!B10;", a colour frame with the marker in its payload, a colour
\* frame whose checksum byte is the marker
SmallFrames ==
    {Frame(66, <<49, 49>>), Frame(66, <<49, 48>>), Frame(67, <<33, 0, 0>>),
     Frame(67, <<122, 0, 0>>)}

BadButtonFrames == {Frame(66, p) : p \in BadButtonPayloads}

\* b"\x00!B11:!B10;\x00\x00!\x00\x00\x00\x00!B138" (lib.rs, tests::test_parse)
TestParseInput ==
    <<0, 33, 66, 49, 49, 58, 33, 66, 49, 48, 59, 0, 0, 33, 0, 0, 0, 0, 33, 66, 49, 51, 56>>

-----------------------------------------------------------------------------
(* The input buffers of the model *)

MaxLen == 5

MaxFrames == 2

Alphabet == {0, 33, 66, 49, 58}

RECURSIVE SeqsUpTo(_, _)
SeqsUpTo(S, n) ==
    IF n = 0 THEN {<<>>}
    ELSE LET shorter == SeqsUpTo(S, n - 1)
         IN  shorter \cup {Append(s, x) : s \in {t \in shorter : Len(t) = n - 1}, x \in S}

\* every buffer of up to MaxLen bytes over Alphabet
ShortBuffers == SeqsUpTo(Alphabet, MaxLen)

\* noise, a lone marker, a truncated frame, a frame with a wrong checksum,
\* an unknown command id, a frame cut short by a marker
Prefixes ==
    {<<>>, <<0>>, <<33>>, <<33, 66, 49>>, <<33, 66, 49, 49, 59>>, <<33, 120>>,
     <<33, 65, 33>>}

Suffixes == {<<0>>, <<33>>}

FramedBuffers ==
    {p \o f : p \in Prefixes, f \in ValidFrames}
    \cup {f \o s : f \in ValidFrames, s \in Suffixes}

RECURSIVE Concat(_)
Concat(ss) == IF ss = <<>> THEN <<>> ELSE Head(ss) \o Concat(Tail(ss))

\* one to MaxFrames valid frames, back to back
FrameSeqs == SeqsUpTo(SmallFrames \cup KindFrames, MaxFrames) \ {<<>>}

FrameSeqBuffers == {Concat(fs) : fs \in FrameSeqs}

\* a frame the buffer ends in the middle of, after nothing or a noise byte
TruncatedBuffers ==
    UNION {{p \o Slice(f, 0, n) : p \in {<<>>, <<0>>}, n \in 1..(Len(f) - 1)} :
              f \in KindFrames \cup SmallFrames}

\* a marker and any command id byte, followed by nothing, noise or "11:"
UnknownIdBuffers ==
    {<<33, id>> \o t : id \in Byte, t \in {<<>>, <<0>>, <<49, 49, 58>>}}

\* frames whose payload does not decode, and frames with a wrong checksum
BadFrameBuffers ==
    BadButtonFrames
    \cup {WrongCrc(f) : f \in BadButtonFrames \cup KindFrames \cup SmallFrames}

\* the byte b with its bit k (0 the least significant) flipped
FlipBit(b, k) == IF (b \div (2 ^ k)) % 2 = 1 THEN b - 2 ^ k ELSE b + 2 ^ k

\* buf with bit k of the byte at (1-based) index i flipped
Flip(buf, i, k) == [buf EXCEPT ![i] = FlipBit(buf[i], k)]

\* valid frames with one bit of one payload byte flipped, the checksum byte kept
FlippedBuffers ==
    UNION {{Flip(f, i, k) : i \in 3..(Len(f) - 1), k \in 0..7} :
              f \in KindFrames \cup SmallFrames}

\* a frame of each kind whose payload bytes are all 0xFF
HighFrames ==
    {Frame(IdOf(command), [i \in 1..PayloadLen(command) |-> 255]) :
        command \in ControllerDataPackageType}

\* two valid frames with non-marker noise between them
NoisyBuffers ==
    {f \o n \o g : f \in SmallFrames \cup KindFrames, n \in {<<0>>, <<0, 120>>},
                   g \in SmallFrames \cup KindFrames}

Inputs ==
    ShortBuffers \cup FramedBuffers \cup FrameSeqBuffers \cup TruncatedBuffers
    \cup UnknownIdBuffers \cup BadFrameBuffers \cup {TestParseInput}
    \cup FlippedBuffers \cup NoisyBuffers \cup HighFrames

-----------------------------------------------------------------------------
(* lib.rs: parse, one action for each arm of the loop's match, one for the  *)
(* return after the loop                                                    *)

NoCall == [fn |-> "none"]

NoRet == [returned |-> FALSE]

Returned(v) == [returned |-> TRUE, val |-> v]

ParseInit(b) ==
    /\ build = b
    /\ input \in Inputs
    /\ pos = 0
    /\ state = "SeekStart"
    /\ result = <<>>
    /\ pc = "loop"

Init ==
    /\ ParseInit(AllocBuild)
    /\ call = NoCall
    /\ ret = NoRet

\* mutant: a byte that is not the marker is reported as an unknown event
SeekStart_reports_noise ==
    /\ pc = "loop"
    /\ pos < Len(input)
    /\ state = "SeekStart"
    /\ IF input[pos + 1] = 33
       THEN state' = "ParseCommand" /\ result' = result
       ELSE /\ state' = "SeekStart"
            /\ result' = Append(result, Err(UnknownEvent(Some(input[pos + 1]))))
    /\ pos' = pos + 1
    /\ UNCHANGED <<build, input, pc, call, ret>>

\* ParserState::SeekStart => { if byte == b'!' { state = ParserState::ParseCommand } }
SeekStart ==
    /\ pc = "loop"
    /\ pos < Len(input)
    /\ state = "SeekStart"
    /\ state' = IF input[pos + 1] = 33 THEN "ParseCommand" ELSE "SeekStart"
    /\ pos' = pos + 1
    /\ UNCHANGED <<build, input, result, pc, call, ret>>

\* Vec::push of the build: alloc always pushes, heapless drops the value when full
push(b, vec, value) ==
    IF b.heapless /\ Len(vec) >= b.MAX_RESULTS THEN vec ELSE Append(vec, value)

\* mutant: the state is not reset to SeekStart after a result
ParseCommand_no_reset ==
    /\ pc = "loop"
    /\ pos < Len(input)
    /\ state = "ParseCommand"
    /\ result' = push(build, result,
                      extract_and_parse_command(build.features,
                                                Slice(input, pos - 1, Len(input))))
    /\ pos' = pos + 1
    /\ UNCHANGED <<build, input, state, pc, call, ret>>

\* mutant: the scan stops one result before the bound
ParseCommand_stops_early ==
    /\ pc = "loop"
    /\ pos < Len(input)
    /\ state = "ParseCommand"
    /\ LET data_package ==
               extract_and_parse_command(build.features,
                                         Slice(input, pos - 1, Len(input)))
           pushed == push(build, result, data_package)
       IN  /\ result' = pushed
           /\ IF build.heapless /\ Len(pushed) + 1 = build.MAX_RESULTS
              THEN /\ pc' = "done"
                   /\ UNCHANGED <<pos, state>>
              ELSE /\ state' = "SeekStart"
                   /\ pos' = pos + 1
                   /\ pc' = pc
    /\ UNCHANGED <<build, input, call, ret>>

\* mutant: the loop does not move on after a result
ParseCommand_stays ==
    /\ pc = "loop"
    /\ pos < Len(input)
    /\ state = "ParseCommand"
    /\ result' = push(build, result,
                      extract_and_parse_command(build.features,
                                                Slice(input, pos - 1, Len(input))))
    /\ state' = "SeekStart"
    /\ UNCHANGED <<build, input, pos, pc, call, ret>>

\* ParserState::ParseCommand => { ... }
ParseCommand ==
    /\ pc = "loop"
    /\ pos < Len(input)
    /\ state = "ParseCommand"
    /\ IF parse_panics(build.features, input, pos)
       THEN /\ pc' = "panic"
            /\ UNCHANGED <<pos, state, result>>
       ELSE LET data_package ==
                    extract_and_parse_command(build.features,
                                              Slice(input, pos - 1, Len(input)))
                pushed == push(build, result, data_package)
            IN  /\ result' = pushed
                /\ IF build.heapless /\ Len(pushed) = build.MAX_RESULTS
                   THEN /\ pc' = "done"
                        /\ UNCHANGED <<pos, state>>
                   ELSE /\ state' = "SeekStart"
                        /\ pos' = pos + 1
                        /\ pc' = pc
    /\ UNCHANGED <<build, input, call, ret>>

\* the for loop is over: `result` is returned
Return ==
    /\ pc = "loop"
    /\ pos = Len(input)
    /\ pc' = "done"
    /\ UNCHANGED <<build, input, pos, state, result, call, ret>>

Next == SeekStart \/ ParseCommand \/ Return

Spec == Init /\ [][Next]_vars

-----------------------------------------------------------------------------
(* The heapless build: parse::<MAX_RESULTS>, result is a heapless::Vec with *)
(* capacity MAX_RESULTS (lib.rs lines 212-219, 246-251)                     *)

MaxK == 3

HeaplessBuild(k) ==
    [heapless |-> TRUE, MAX_RESULTS |-> k, features |-> ControllerDataPackageType]

HeaplessInputs ==
    SeqsUpTo({0, 33, 66}, MaxLen) \cup FrameSeqBuffers \cup {TestParseInput}

InitHeapless ==
    /\ \E k \in 0..MaxK :
           /\ build = HeaplessBuild(k)
           /\ input \in HeaplessInputs
           /\ pos = 0
           /\ state = "SeekStart"
           /\ result = <<>>
           /\ pc = "loop"
    /\ call = NoCall
    /\ ret = NoRet

SpecHeapless == InitHeapless /\ [][Next]_vars

-----------------------------------------------------------------------------
(* Builds with event kinds left out: each event is a cargo feature, at      *)
(* least one must be selected (lib.rs lines 10-12, 23-32)                   *)

\* every kind, every kind but one, one kind only
FeatureSets ==
    {ControllerDataPackageType}
    \cup {ControllerDataPackageType \ {k} : k \in ControllerDataPackageType}
    \cup {{k} : k \in ControllerDataPackageType}

FeatureBuild(fs) == [heapless |-> FALSE, MAX_RESULTS |-> 0, features |-> fs]

\* a frame of each kind: valid, after a noise byte, cut short, with a wrong
\* checksum, with a payload that does not decode
FeatureInputs ==
    {p \o f : p \in {<<>>, <<0>>}, f \in KindFrames}
    \cup TruncatedBuffers \cup BadFrameBuffers \cup {TestParseInput}

InitFeatures ==
    /\ \E fs \in FeatureSets :
           /\ build = FeatureBuild(fs)
           /\ input \in FeatureInputs
           /\ pos = 0
           /\ state = "SeekStart"
           /\ result = <<>>
           /\ pc = "loop"
    /\ call = NoCall
    /\ ret = NoRet

SpecFeatures == InitFeatures /\ [][Next]_vars

-----------------------------------------------------------------------------
(* A caller that calls parse several times: `state` and `result` are locals *)
(* of parse, made anew by every call (lib.rs lines 230-232); `call` counts  *)
(* the calls made and `ret` keeps what the calls before returned.           *)

MaxCalls == 3

\* nothing, a lone marker, noise and a marker, "!B11:", "!B1", "!!B11:",
\* a buffer that ends in a marker after a frame
SessionInputs ==
    {<<>>, <<33>>, <<0, 33>>, <<33, 66, 49, 49, 58>>, <<33, 66, 49>>,
     <<33, 33, 66, 49, 49, 58>>, <<33, 66, 49, 48, 59, 33>>}

SessionBuilds == {AllocBuild, HeaplessBuild(1)}

\* let mut state = ParserState::SeekStart; let mut result = Vec::new();
\* for pos in 0..input.len()
EnterParse(buf) ==
    /\ input' = buf
    /\ pos' = 0
    /\ state' = "SeekStart"
    /\ result' = <<>>
    /\ pc' = "loop"

InitSession ==
    /\ \E b \in SessionBuilds : ParseInit(b)
    /\ input \in SessionInputs
    /\ call = [fn |-> "parse", n |-> 1]
    /\ ret = Returned(<<>>)

\* mutant: the scanner state outlives the call (a static instead of a local)
CallParse_keeps_state ==
    /\ pc = "done"
    /\ call.n < MaxCalls
    /\ \E buf \in SessionInputs :
           /\ input' = buf
           /\ pos' = 0
           /\ result' = <<>>
           /\ pc' = "loop"
    /\ call' = [call EXCEPT !.n = call.n + 1]
    /\ ret' = Returned(Append(ret.val, [input |-> input, result |-> result]))
    /\ UNCHANGED <<build, state>>

\* the caller keeps the returned results and calls parse on another buffer
CallParse ==
    /\ pc = "done"
    /\ call.n < MaxCalls
    /\ \E buf \in SessionInputs : EnterParse(buf)
    /\ call' = [call EXCEPT !.n = call.n + 1]
    /\ ret' = Returned(Append(ret.val, [input |-> input, result |-> result]))
    /\ UNCHANGED build

NextSession == SeekStart \/ ParseCommand \/ Return \/ CallParse

SpecSession == InitSession /\ [][NextSession]_vars

-----------------------------------------------------------------------------
(* parse to its end, in the alloc build and in the heapless builds: the for *)
(* loop takes its next step as long as it has one                           *)

\* every buffer of up to MaxLen bytes of noise, markers and 'B', and buffers
\* with frames
TerminationInputs ==
    SeqsUpTo({0, 33, 66}, MaxLen) \cup SessionInputs \cup {TestParseInput}

InitAnyBuild ==
    /\ \E b \in SessionBuilds : ParseInit(b)
    /\ input \in TerminationInputs
    /\ call = NoCall
    /\ ret = NoRet

SpecTerminates == InitAnyBuild /\ [][Next]_vars /\ WF_vars(Next)

-----------------------------------------------------------------------------
(* Direct calls of the crate's functions, as its unit tests make them *)

MaxCrcLen == 3

CrcBytes == {0, 33, 66, 49, 255}

\* "!B11" with ':' and with ';' (tests::test_check_crc_ok, tests::test_check_crc_err)
CrcTestData == <<33, 66, 49, 49>>

CrcCalls ==
    {[fn |-> "check_crc", data |-> d, crc |-> c] :
        d \in SeqsUpTo(CrcBytes, MaxCrcLen) \cup {CrcTestData}, c \in Byte}

MaxDecLen == 17

MaxF32Len == 5

\* the names of the seven TryFrom<&[u8]> implementations
DecoderFns ==
    {"ButtonEvent::try_from", "ColorEvent::try_from", "QuaternionEvent::try_from",
     "AccelerometerEvent::try_from", "GyroEvent::try_from",
     "MagnetometerEvent::try_from", "LocationEvent::try_from"}

\* slices of every length up to MaxDecLen: one byte repeated, and a ramp
LengthData ==
    {[i \in 1..n |-> c] : n \in 0..MaxDecLen, c \in {0, 49, 255}}
    \cup {Ramp(n) : n \in 0..MaxDecLen}

\* every button byte with some state bytes, some button bytes with every state byte
ButtonData ==
    {<<b, s>> : b \in Byte, s \in {0, 47, 48, 49, 50, 255}}
    \cup {<<b, s>> : b \in {48, 49, 52, 56, 57}, s \in Byte}

\* 1.2f32, NaN, +infinity, -infinity and 0x04030201 as little-endian bytes
FloatGroups ==
    {<<154, 153, 153, 63>>, <<0, 0, 192, 127>>, <<0, 0, 128, 127>>,
     <<0, 0, 128, 255>>, <<1, 2, 3, 4>>}

FloatData(groups) == {Concat(gs) : gs \in [1..groups -> FloatGroups]}

\* b"9\x1e\x0c\xc03\xf7P\xbf\xefv\x96>\x00\x00\x00\x00"
\* (quaternion_event.rs, tests::test_parse_quaternion_event)
QuaternionTestInput ==
    <<57, 30, 12, 192, 51, 247, 80, 191, 239, 118, 150, 62, 0, 0, 0, 0>>

\* 1.2f32, 2.3f32, 3.4f32 to_le_bytes (location_event.rs, tests::test_parse_gyro_event)
LocationTestInput ==
    <<154, 153, 153, 63, 51, 51, 19, 64, 154, 153, 89, 64>>

DecoderData(fn) ==
    LengthData
    \cup CASE fn = "ButtonEvent::try_from"     -> ButtonData
           [] fn = "ColorEvent::try_from"      -> ColorPayloads
           [] fn = "QuaternionEvent::try_from" -> FloatData(4) \cup {QuaternionTestInput}
           [] OTHER                            -> FloatData(3) \cup {LocationTestInput}

DecoderCalls == UNION {{[fn |-> f, data |-> d] : d \in DecoderData(f)} : f \in DecoderFns}

\* slices of up to MaxF32Len bytes, and the inputs of
\* tests::test_try_f32_from_le_bytes_ok and _err
F32Calls ==
    {[fn |-> "try_f32_from_le_bytes", data |-> d] :
        d \in SeqsUpTo({0, 128, 255}, MaxF32Len) \cup FloatGroups
              \cup {<<57, 30, 12, 192>>, <<30, 12, 192>>}}

InitCall ==
    /\ build = AllocBuild
    /\ input = <<>>
    /\ pos = 0
    /\ state = "SeekStart"
    /\ result = <<>>
    /\ pc = "idle"
    /\ call \in CrcCalls \cup DecoderCalls \cup F32Calls
    /\ ret = NoRet

CallCheckCrc ==
    /\ call.fn = "check_crc"
    /\ ret = NoRet
    /\ ret' = Returned(check_crc(call.data, call.crc))
    /\ UNCHANGED <<parseVars, call>>

\* a direct call of the function named fn: it panics or returns its value
Call(fn, panics, value) ==
    /\ call.fn = fn
    /\ pc = "idle"
    /\ ret = NoRet
    /\ IF panics
       THEN pc' = "panic" /\ ret' = ret
       ELSE pc' = pc /\ ret' = Returned(value)
    /\ UNCHANGED <<build, input, pos, state, result, call>>

CallButtonEvent ==
    Call("ButtonEvent::try_from", ButtonEvent_try_from_panics(call.data),
         ButtonEvent_try_from(call.data))

CallColorEvent ==
    Call("ColorEvent::try_from", ColorEvent_try_from_panics(call.data),
         ColorEvent_try_from(call.data))

CallQuaternionEvent ==
    Call("QuaternionEvent::try_from", QuaternionEvent_try_from_panics(call.data),
         QuaternionEvent_try_from(call.data))

CallAccelerometerEvent ==
    Call("AccelerometerEvent::try_from", xyz_try_from_panics(call.data),
         AccelerometerEvent_try_from(call.data))

CallGyroEvent ==
    Call("GyroEvent::try_from", xyz_try_from_panics(call.data),
         GyroEvent_try_from(call.data))

CallMagnetometerEvent ==
    Call("MagnetometerEvent::try_from", xyz_try_from_panics(call.data),
         MagnetometerEvent_try_from(call.data))

CallLocationEvent ==
    Call("LocationEvent::try_from", xyz_try_from_panics(call.data),
         LocationEvent_try_from(call.data))

CallTryF32 ==
    Call("try_f32_from_le_bytes", try_f32_from_le_bytes_panics(call.data),
         try_f32_from_le_bytes(call.data))

NextCall ==
    \/ CallCheckCrc
    \/ CallButtonEvent
    \/ CallColorEvent
    \/ CallQuaternionEvent
    \/ CallAccelerometerEvent
    \/ CallGyroEvent
    \/ CallMagnetometerEvent
    \/ CallLocationEvent
    \/ CallTryF32

SpecCall == InitCall /\ [][NextCall]_vars

-----------------------------------------------------------------------------
(* What the claims below are stated with: the wire format read back from a  *)
(* buffer, and the events written back to payload bytes.                    *)

KnownIds == {66, 67, 81, 65, 71, 77, 76}

\* the payload length the wire format fixes for a command id
WireLen(id) ==
    CASE id = 66 -> 2
      [] id = 67 -> 3
      [] id = 81 -> 16
      [] id \in {65, 71, 77, 76} -> 12

\* the event kind a command id stands for
WireKind(id) ==
    CASE id = 66 -> "ButtonEvent"
      [] id = 67 -> "ColorEvent"
      [] id = 81 -> "QuaternionEvent"
      [] id = 65 -> "AccelerometerEvent"
      [] id = 71 -> "GyroEvent"
      [] id = 77 -> "MagnetometerEvent"
      [] id = 76 -> "LocationEvent"

\* a payload is valid for its kind: only the button payload has invalid values
ValidPayload(id, payload) ==
    id = 66 => (payload[1] \in 49..56 /\ payload[2] \in {48, 49})

\* buf holds, from 0-based offset o on, a complete frame with a correct checksum
\* and a payload valid for its kind
ValidFrameAt(buf, o) ==
    /\ o + 2 <= Len(buf)
    /\ buf[o + 1] = Marker
    /\ buf[o + 2] \in KnownIds
    /\ LET n == WireLen(buf[o + 2])
       IN  /\ o + n + 3 <= Len(buf)
           /\ buf[o + n + 3] = Checksum(SubSeq(buf, o + 1, o + n + 2))
           /\ ValidPayload(buf[o + 2], SubSeq(buf, o + 3, o + n + 2))

PayloadAt(buf, o) == SubSeq(buf, o + 3, o + WireLen(buf[o + 2]) + 2)

ButtonIdOf(button) ==
    CASE button = "Button1" -> 49
      [] button = "Button2" -> 50
      [] button = "Button3" -> 51
      [] button = "Button4" -> 52
      [] button = "Up"      -> 53
      [] button = "Down"    -> 54
      [] button = "Left"    -> 55
      [] button = "Right"   -> 56

ButtonStateIdOf(bstate) == IF bstate = "Released" THEN 48 ELSE 49

\* a 32-bit pattern as its four bytes, least significant first
F32ToLeBytes(f) == <<f[2] % 256, f[2] \div 256, f[1] % 256, f[1] \div 256>>

\* the payload bytes that carry an event's fields
EncodePayload(e) ==
    CASE e.kind = "ButtonEvent" -> <<ButtonIdOf(e.button), ButtonStateIdOf(e.state)>>
      [] e.kind = "ColorEvent" -> <<e.red, e.green, e.blue>>
      [] e.kind = "QuaternionEvent" ->
            F32ToLeBytes(e.x) \o F32ToLeBytes(e.y) \o F32ToLeBytes(e.z) \o F32ToLeBytes(e.w)
      [] e.kind \in {"AccelerometerEvent", "GyroEvent", "MagnetometerEvent"} ->
            F32ToLeBytes(e.x) \o F32ToLeBytes(e.y) \o F32ToLeBytes(e.z)
      [] e.kind = "LocationEvent" ->
            F32ToLeBytes(e.latitude) \o F32ToLeBytes(e.longitude)
            \o F32ToLeBytes(e.altitude)

\* r is the Ok event of the valid frame at offset o of buf
IsOkEventOf(r, buf, o) ==
    /\ r.ok
    /\ r.val.kind = WireKind(buf[o + 2])
    /\ EncodePayload(r.val) = PayloadAt(buf, o)

\* 0-based position q of buf holds a marker that the scan meets while seeking:
\* the markers of a run of '!' bytes are met alternately, the first one first
\* (the byte after a met marker is read as a command id)
RunStart(buf, q) ==
    CHOOSE s \in 0..q :
        /\ \A k \in s..q : buf[k + 1] = Marker
        /\ s = 0 \/ buf[s] # Marker

MetMarker(buf, q) == buf[q + 1] = Marker /\ (q - RunStart(buf, q)) % 2 = 0

RECURSIVE SortedSeq(_)
SortedSeq(S) ==
    IF S = {} THEN <<>>
    ELSE LET m == CHOOSE x \in S : \A y \in S : x <= y
         IN  <<m>> \o SortedSeq(S \ {m})

\* the met markers that have a following byte, in buffer order
MarkersWithId(buf) == SortedSeq({q \in 0..(Len(buf) - 2) : MetMarker(buf, q)})

-----------------------------------------------------------------------------
(* C1: parse returns its results in buffer order, one for each marker byte  *)
(* '!' met while seeking that has a following byte (the result being that   *)
(* of the candidate frame starting at the marker); for the buffer of        *)
(* tests::test_parse it returns exactly Ok(Button1, Pressed),               *)
(* Ok(Button1, Released), Err(UnknownEvent(Some(0))),                       *)
(* Err(ButtonParseError(UnknownButtonState('3'))).                          *)
C1_ResultsInBufferOrder ==
    pc = "done" =>
        /\ LET ms == MarkersWithId(input)
           IN  /\ Len(result) = Len(ms)
               /\ \A i \in 1..Len(ms) :
                      result[i] = extract_and_parse_command(
                                      build.features, Slice(input, ms[i], Len(input)))
        /\ input = TestParseInput =>
               result = << Ok([kind |-> "ButtonEvent", button |-> "Button1",
                               state |-> "Pressed"]),
                           Ok([kind |-> "ButtonEvent", button |-> "Button1",
                               state |-> "Released"]),
                           Err(UnknownEvent(Some(0))),
                           Err(ButtonParseError(UnknownButtonState(51))) >>

C1_Witness == pc = "done" /\ input = TestParseInput /\ Len(result) = 4

-----------------------------------------------------------------------------
(* C2: a buffer that starts with a frame '!' + id + payload + checksum, of  *)
(* any of the seven kinds, with a payload valid for the kind and the        *)
(* checksum (~sum) & 0xFF, makes parse yield as its first result the Ok     *)
(* event of that kind whose fields, written back as bytes (floats little-   *)
(* endian), are exactly the payload bytes.                                  *)
C2_ValidFrameRoundTrip ==
    (pc = "done" /\ ValidFrameAt(input, 0)) =>
        /\ Len(result) >= 1
        /\ IsOkEventOf(result[1], input, 0)

C2_Witness ==
    /\ pc = "done"
    /\ input = Frame(81, Ramp(16))
    /\ result[1] = Ok([kind |-> "QuaternionEvent",
                       x |-> <<68 * 256 + 51, 34 * 256 + 17>>,
                       y |-> <<136 * 256 + 119, 102 * 256 + 85>>,
                       z |-> <<204 * 256 + 187, 170 * 256 + 153>>,
                       w |-> <<16 * 256 + 255, 238 * 256 + 221>>])

-----------------------------------------------------------------------------
(* C3: check_crc(data, crc) returns Ok exactly when crc is (~S) & 0xFF, S   *)
(* the sum of the bytes of data in a 16-bit accumulator, and otherwise      *)
(* Err(InvalidCrc(crc, (~S) & 0xFF)); "!B11" with ':' is Ok, with ';' it is *)
(* Err(InvalidCrc(';', ':')).                                               *)
C3_CheckCrc ==
    (call.fn = "check_crc" /\ ret # NoRet) =>
        LET S == SumBytes(call.data) % 65536
            \* the low byte of ~S is the byte that adds up with S's low byte to 0xFF
            c == CHOOSE b \in Byte : (S + b) % 256 = 255
        IN  /\ ret.val.ok <=> call.crc = c
            /\ ~ret.val.ok => ret.val = Err(InvalidCrc(call.crc, c))
            /\ (call.data = CrcTestData /\ call.crc = 58) => ret.val.ok
            /\ (call.data = CrcTestData /\ call.crc = 59) =>
                   ret.val = Err(InvalidCrc(59, 58))

C3_Witness ==
    /\ call.fn = "check_crc"
    /\ ret # NoRet
    /\ call.data = CrcTestData
    /\ call.crc = 59
    /\ ~ret.val.ok

-----------------------------------------------------------------------------
(* C4: one malformed frame never aborts the decode of later frames: when    *)
(* the buffer is E ++ V, E a marker followed by zero or more bytes that do  *)
(* not form a valid frame (a lone marker included) and V a complete valid   *)
(* frame, the results of parse contain the Ok event of V.                   *)
C4_MalformedThenValid ==
    pc = "done" =>
        \A k \in 1..Len(input) :
            ( /\ input[1] = Marker
              /\ ~(ValidFrameAt(input, 0) /\ WireLen(input[2]) + 3 = k)
              /\ ValidFrameAt(input, k)
              /\ k + WireLen(input[k + 2]) + 3 = Len(input) )
            => \E i \in 1..Len(result) : IsOkEventOf(result[i], input, k)

-----------------------------------------------------------------------------
(* C5: the buffer is the concatenation of n complete valid frames: parse    *)
(* returns exactly n results, the i-th being the Ok event of the i-th frame *)

\* the 0-based offsets of the frames of buf from offset o on, when buf is made
\* of complete valid frames from o to its end; <<-1>> at the end otherwise
RECURSIVE FrameOffsets(_, _)
FrameOffsets(buf, o) ==
    IF o = Len(buf) THEN <<>>
    ELSE IF ~ValidFrameAt(buf, o) THEN <<-1>>
    ELSE <<o>> \o FrameOffsets(buf, o + WireLen(buf[o + 2]) + 3)

IsFrameConcat(buf) ==
    /\ buf # <<>>
    /\ LET os == FrameOffsets(buf, 0) IN os[Len(os)] # -1

\* no byte after a frame's marker (payload, checksum) is the marker byte
NoInnerMarker(buf) ==
    \A o \in 1..Len(buf) :
        buf[o] = Marker => \E i \in 1..Len(FrameOffsets(buf, 0)) :
                               FrameOffsets(buf, 0)[i] = o - 1

OneOkPerFrame(buf, res) ==
    LET os == FrameOffsets(buf, 0)
    IN  /\ Len(res) = Len(os)
        /\ \A i \in 1..Len(os) : IsOkEventOf(res[i], buf, os[i])

\* the claim as stated
C5_OneResultPerFrame ==
    (pc = "done" /\ IsFrameConcat(input)) => OneOkPerFrame(input, result)

\* C5 as amended: the same, for buffers made of complete valid frames in which
\* no payload byte and no checksum byte equals the marker byte '!' (0x21)
C5_OneResultPerMarkerFreeFrame ==
    (pc = "done" /\ IsFrameConcat(input) /\ NoInnerMarker(input))
        => OneOkPerFrame(input, result)

C5_Witness ==
    /\ pc = "done"
    /\ input = Frame(66, <<49, 49>>) \o Frame(81, Ramp(16))
    /\ Len(result) = 2
    /\ result[2].ok

-----------------------------------------------------------------------------
(* C6: after the result for a marker at position p the scan resumes at      *)
(* p + 1, so a marker byte at p + 1 starts a new candidate frame: with p    *)
(* the first marker of the buffer, input[p + 1] = '!' and a byte after it,  *)
(* the second result is that of the candidate frame starting at p + 1.      *)
FirstMarker(buf) == CHOOSE p \in 0..(Len(buf) - 1) :
                        /\ buf[p + 1] = Marker
                        /\ \A q \in 0..(p - 1) : buf[q + 1] # Marker

C6_ResumesAfterMarker ==
    (pc = "done" /\ \E q \in 1..Len(input) : input[q] = Marker) =>
        LET p == FirstMarker(input)
        IN  (p + 2 < Len(input) /\ input[p + 2] = Marker) =>
                /\ Len(result) >= 2
                /\ result[2] = extract_and_parse_command(
                                   build.features, Slice(input, p + 1, Len(input)))

-----------------------------------------------------------------------------
(* C7: a marker that is the very last byte of the buffer (met while         *)
(* seeking, no command id byte after it) makes the scan yield               *)
(* Err(UnknownEvent(None)) for it, as its last result.                      *)
C7_TrailingMarker ==
    (pc = "done" /\ input # <<>> /\ MetMarker(input, Len(input) - 1)) =>
        /\ result # <<>>
        /\ result[Len(result)] = Err(UnknownEvent(None))

-----------------------------------------------------------------------------
(* The step of parse that produces a result: the scan is at the command id  *)
(* byte, 0-based position pos, of the marker at pos - 1.                    *)

AtCommandId == pc = "loop" /\ state = "ParseCommand" /\ pos < Len(input)

\* the bytes from the marker to the end of the buffer
Remaining == Len(input) - (pos - 1)

IsErr(r, err) == ~r.ok /\ r.val.err = err

-----------------------------------------------------------------------------
(* C8: the command id bytes 'B', 'C', 'Q', 'A', 'G', 'M', 'L' stand for the *)
(* seven kinds with payload lengths 2, 3, 16, 12, 12, 12, 12 (a frame of    *)
(* the kind is too short exactly below payload length + 3 bytes, and an Ok  *)
(* event is of the id's kind); every other id byte after a marker yields    *)
(* exactly Err(UnknownEvent(Some(id))), whatever follows it.                *)
C8_CommandIdTable ==
    [][ AtCommandId =>
            LET id == input[pos + 1]
                r  == result'[Len(result')]
            IN  /\ Len(result') = Len(result) + 1
                /\ id \notin KnownIds => r = Err(UnknownEvent(Some(id)))
                /\ id \in KnownIds =>
                       /\ ~IsErr(r, "UnknownEvent")
                       /\ r.ok => r.val.kind = WireKind(id)
                       /\ IsErr(r, "InvalidLength") <=> Remaining < WireLen(id) + 3
                       /\ IsErr(r, "InvalidLength") =>
                              r.val.expected = WireLen(id) + 3
      ]_vars

C8_Witness ==
    /\ pc = "done"
    /\ input = <<33, 98, 49, 49, 58>>
    /\ result = <<Err(UnknownEvent(Some(98)))>>

-----------------------------------------------------------------------------
(* C9: a marker at position p followed by a known command id, with fewer    *)
(* than payload length + 3 bytes from p to the end of the buffer, yields    *)
(* Err(InvalidLength(expected, actual)), expected 5 for B, 6 for C, 19 for  *)
(* Q, 15 for A, G, M and L, actual the buffer length minus p.               *)
ExpectedFrameLen(id) ==
    CASE id = 66 -> 5
      [] id = 67 -> 6
      [] id = 81 -> 19
      [] OTHER   -> 15

C9_TruncatedFrame ==
    [][ (AtCommandId /\ input[pos + 1] \in KnownIds
            /\ Remaining < ExpectedFrameLen(input[pos + 1])) =>
            result' = Append(result,
                             Err(InvalidLength(ExpectedFrameLen(input[pos + 1]),
                                               Len(input) - (pos - 1))))
      ]_vars

C9_Witness ==
    /\ pc = "done"
    /\ input = <<0>> \o Slice(Frame(81, Ramp(16)), 0, 7)
    /\ result = <<Err(InvalidLength(19, 7))>>

-----------------------------------------------------------------------------
(* C10: a candidate frame is validated by length, then checksum, then       *)
(* payload: too short a frame yields InvalidLength whatever its bytes, a    *)
(* complete frame with a wrong checksum byte yields InvalidCrc even when    *)
(* its payload does not decode, and a payload error is reported only for a  *)
(* complete frame with a correct checksum.                                  *)
C10_ValidationOrder ==
    [][ (AtCommandId /\ input[pos + 1] \in KnownIds) =>
            LET n        == WireLen(input[pos + 1])
                r        == result'[Len(result')]
                complete == Remaining >= n + 3
                crcOk    == /\ complete
                            /\ input[pos + n + 2]
                                   = Checksum(SubSeq(input, pos, pos + n + 1))
            IN  /\ Len(result') = Len(result) + 1
                /\ ~complete => IsErr(r, "InvalidLength")
                /\ (complete /\ ~crcOk) => IsErr(r, "InvalidCrc")
                /\ (complete /\ crcOk) =>
                       \/ r.ok
                       \/ IsErr(r, "ButtonParseError")
                /\ IsErr(r, "ButtonParseError") =>
                       /\ complete /\ crcOk
                       /\ ~ValidPayload(input[pos + 1],
                                        SubSeq(input, pos + 2, pos + n + 1))
      ]_vars

\* a button frame with an unknown button, an unknown state and a wrong checksum
C10_Witness ==
    /\ pc = "done"
    /\ input = WrongCrc(Frame(66, <<57, 51>>))
    /\ Len(result) = 1
    /\ IsErr(result[1], "InvalidCrc")

-----------------------------------------------------------------------------
(* C11: a buffer that starts with a valid frame in which one bit of one     *)
(* payload byte was flipped, the checksum byte left as it was, gives        *)
(* Err(InvalidCrc(received, calculated)) as the result of that frame,       *)
(* received being the frame's checksum byte.                                *)

\* buf starts with a frame that flipping one bit of one payload byte makes valid
FlippedValidFrame(buf) ==
    /\ Len(buf) >= 2
    /\ buf[2] \in KnownIds
    /\ Len(buf) >= WireLen(buf[2]) + 3
    /\ \E i \in 3..(WireLen(buf[2]) + 2), k \in 0..7 : ValidFrameAt(Flip(buf, i, k), 0)

C11_BitFlipDetected ==
    (pc = "done" /\ FlippedValidFrame(input)) =>
        /\ Len(result) >= 1
        /\ IsErr(result[1], "InvalidCrc")
        /\ result[1].val.received = input[WireLen(input[2]) + 3]
        /\ result[1].val.calculated # result[1].val.received

\* "!B11:" with the lowest bit of the button byte flipped
C11_Witness ==
    /\ pc = "done"
    /\ input = <<33, 66, 48, 49, 58>>
    /\ result = <<Err(InvalidCrc(58, 59))>>

-----------------------------------------------------------------------------
(* C12: the checksum is order-sensitive: a buffer that starts with a valid  *)
(* frame in which two payload bytes of different value were exchanged, the  *)
(* checksum byte left as it was, gives Err(InvalidCrc(..)) for that frame.  *)

\* buf with the bytes at (1-based) indices i and j exchanged
Swap(buf, i, j) == [buf EXCEPT ![i] = buf[j], ![j] = buf[i]]

\* buf starts with a frame that exchanging two different payload bytes makes valid
SwappedValidFrame(buf) ==
    /\ Len(buf) >= 2
    /\ buf[2] \in KnownIds
    /\ Len(buf) >= WireLen(buf[2]) + 3
    /\ \E i \in 3..(WireLen(buf[2]) + 2), j \in 3..(WireLen(buf[2]) + 2) :
           /\ i < j
           /\ buf[i] # buf[j]
           /\ ValidFrameAt(Swap(buf, i, j), 0)

\* the claim as stated
C12_SwapDetected ==
    (pc = "done" /\ SwappedValidFrame(input)) =>
        /\ Len(result) >= 1
        /\ IsErr(result[1], "InvalidCrc")

\* C12 as amended: the checksum is a sum, so it is not order-sensitive: after
\* two payload bytes of a valid frame are exchanged, the checksum byte left as it
\* was, the checksum check still passes: the result for the frame is never
\* InvalidCrc, it is the Ok event of the exchanged payload, or, for a button
\* payload that is no longer valid, a ButtonParseError
C12_SwapNotDetected ==
    (pc = "done" /\ SwappedValidFrame(input)) =>
        /\ Len(result) >= 1
        /\ ~IsErr(result[1], "InvalidCrc")
        /\ IF ValidFrameAt(input, 0)
           THEN IsOkEventOf(result[1], input, 0)
           ELSE IsErr(result[1], "ButtonParseError")

\* "!B10;" with its two payload bytes exchanged: the checksum ';' still matches
C12_Witness ==
    /\ pc = "done"
    /\ input = <<33, 66, 48, 49, 59>>
    /\ result = <<Err(ButtonParseError(UnknownButton(48)))>>

-----------------------------------------------------------------------------
(* C13: non-marker noise is skipped silently: a byte other than '!' met     *)
(* while seeking adds no result, a buffer without any '!' gives no result,  *)
(* and every valid frame that is at the start of the buffer or comes right  *)
(* after a byte that is not the marker (noise before or between frames) is  *)
(* decoded: its Ok event is among the results.                              *)
C13_NoiseSkipped ==
    /\ [](pc = "done" =>
            /\ (\A q \in 1..Len(input) : input[q] # Marker) => result = <<>>
            /\ \A o \in 0..(Len(input) - 1) :
                   (ValidFrameAt(input, o) /\ (o = 0 \/ input[o] # Marker))
                   => \E i \in 1..Len(result) : IsOkEventOf(result[i], input, o))
    /\ [][ (pc = "loop" /\ state = "SeekStart" /\ pos < Len(input)
                /\ input[pos + 1] # Marker)
            => (result' = result /\ state' = "SeekStart") ]_vars

\* "!B11:", two noise bytes, "!B10;"
C13_Witness ==
    /\ pc = "done"
    /\ input = Frame(66, <<49, 49>>) \o <<0, 120>> \o Frame(66, <<49, 48>>)
    /\ Len(result) = 2
    /\ result[1].ok
    /\ result[2].ok

-----------------------------------------------------------------------------
(* C14: for a marker at position p followed by a known command id, the      *)
(* candidate frame handed to parse_command is input[p .. min(p + L + 3,     *)
(* buffer length)) with L the payload length of the id: it never extends    *)
(* past the end of the buffer; and for every buffer no index or slice       *)
(* operation of parse, extract_and_parse_command, parse_command or the      *)
(* payload decoders is out of bounds: parse never panics.                   *)
CandidateFrame(buf, p) ==
    SubSeq(buf, p + 1, Min(p + WireLen(buf[p + 2]) + 3, Len(buf)))

C14_CandidateFrameInBounds ==
    /\ [](pc # "panic")
    /\ [][ AtCommandId =>
            /\ pc' # "panic"
            /\ ~parse_panics(build.features, input, pos)
            /\ input[pos + 1] \in KnownIds =>
                 LET p     == pos - 1
                     slice == Slice(input, p, Len(input))
                     kind  == ControllerDataPackageType_try_from(input[pos + 1]).val
                     end   == command_end(kind, slice)
                 IN  /\ end + 1 <= Len(slice)
                     /\ p + end + 1 <= Len(input)
                     /\ Slice(slice, 0, end + 1) = CandidateFrame(input, p)
                     /\ result' = Append(result,
                            parse_command(build.features, kind, CandidateFrame(input, p)))
         ]_vars

\* "!B1" at the end of a buffer: the candidate frame is cut at the buffer's end
C14_Witness ==
    /\ pc = "done"
    /\ input = <<0, 33, 66, 49>>
    /\ result = <<Err(InvalidLength(5, 3))>>

-----------------------------------------------------------------------------
(* C15: with MAX_RESULTS = K (heapless build) parse returns exactly the     *)
(* first min(K, n) results of the sequence the unbounded parse returns for  *)
(* the same buffer (n its length), in the same order; the result never      *)
(* holds more than K entries, no result is dropped before the scan stops,   *)
(* and K = 0 gives an empty result.                                         *)

\* what the unbounded parse returns: one result for each marker it meets
\* with a byte after it, in buffer order
UnboundedResults(features, buf) ==
    LET ms == MarkersWithId(buf)
    IN  [i \in 1..Len(ms) |->
            extract_and_parse_command(features, Slice(buf, ms[i], Len(buf)))]

\* the markers whose result is made before the cursor reaches p
MarkersBefore(buf, p) ==
    Cardinality({q \in 0..(Len(buf) - 2) : MetMarker(buf, q) /\ q + 1 < p})

C15_BoundedIsPrefix ==
    LET K   == build.MAX_RESULTS
        all == UnboundedResults(build.features, input)
    IN  /\ build.heapless
        /\ Len(result) <= K
        /\ Len(result) <= Len(all)
        /\ result = SubSeq(all, 1, Len(result))
        /\ pc = "loop" => Len(result) = Min(K, MarkersBefore(input, pos))
        /\ pc = "done" => Len(result) = Min(K, Len(all))
        /\ (pc = "done" /\ K = 0) => result = <<>>

\* the four frames of the crate's test with room for three results
C15_Witness ==
    /\ pc = "done"
    /\ build.MAX_RESULTS = 3
    /\ input = TestParseInput
    /\ Len(result) = 3
    /\ pos < Len(input)

-----------------------------------------------------------------------------
(* C16: when an event kind is left out of the build, a frame of that kind   *)
(* with correct length and correct checksum yields                          *)
(* DisabledControllerDataPackageType(kind), while a frame of that kind cut  *)
(* short or with a wrong checksum yields InvalidLength or InvalidCrc and    *)
(* never the disabled-kind error; a kind that is in the build never yields  *)
(* the disabled-kind error, so with every kind enabled parse never does.    *)
C16_DisabledKind ==
    /\ [](\A i \in 1..Len(result) :
              IsErr(result[i], "DisabledControllerDataPackageType")
              => result[i].val.command \notin build.features)
    /\ [][ (AtCommandId /\ input[pos + 1] \in KnownIds) =>
            LET n        == WireLen(input[pos + 1])
                kind     == ControllerDataPackageType_try_from(input[pos + 1]).val
                r        == result'[Len(result')]
                complete == Remaining >= n + 3
                crcOk    == /\ complete
                            /\ input[pos + n + 2]
                                   = Checksum(SubSeq(input, pos, pos + n + 1))
            IN  /\ Len(result') = Len(result) + 1
                /\ (kind \notin build.features /\ complete /\ crcOk)
                       => r = Err(DisabledControllerDataPackageType(kind))
                /\ ~complete => r = Err(InvalidLength(n + 3, Remaining))
                /\ (complete /\ ~crcOk) => IsErr(r, "InvalidCrc")
                /\ kind \in build.features
                       => ~IsErr(r, "DisabledControllerDataPackageType")
         ]_vars

\* a colour frame in the build that leaves out the colour event
C16_Witness ==
    /\ pc = "done"
    /\ build.features = ControllerDataPackageType \ {"Color"}
    /\ input = Frame(67, <<1, 2, 3>>)
    /\ result = <<Err(DisabledControllerDataPackageType("Color"))>>

-----------------------------------------------------------------------------
(* C17: the button decoder on a 2-byte payload maps byte 0 '1'..'8' to      *)
(* Button1, Button2, Button3, Button4, Up, Down, Left, Right and fails with *)
(* ButtonParseError(UnknownButton(byte0)) for every other value; it maps    *)
(* byte 1 '0' to Released and '1' to Pressed and fails with                 *)
(* ButtonParseError(UnknownButtonState(byte1)) for every other value; byte  *)
(* 0 is checked first: when both bytes are invalid the error is             *)
(* UnknownButton.                                                           *)
ButtonNames == <<"Button1", "Button2", "Button3", "Button4", "Up", "Down", "Left", "Right">>

C17_ButtonDecoder ==
    (call.fn = "ButtonEvent::try_from" /\ ret # NoRet /\ Len(call.data) = 2) =>
        LET b0 == call.data[1]
            b1 == call.data[2]
        IN  /\ (b0 \in 49..56 /\ b1 \in {48, 49}) =>
                   ret.val = Ok([kind   |-> "ButtonEvent",
                                 button |-> ButtonNames[b0 - 48],
                                 state  |-> IF b1 = 48 THEN "Released" ELSE "Pressed"])
            /\ b0 \notin 49..56 =>
                   ret.val = Err(ButtonParseError(UnknownButton(b0)))
            /\ (b0 \in 49..56 /\ b1 \notin {48, 49}) =>
                   ret.val = Err(ButtonParseError(UnknownButtonState(b1)))

\* b"92": an unknown button and an unknown state
C17_Witness ==
    /\ call = [fn |-> "ButtonEvent::try_from", data |-> <<57, 50>>]
    /\ ret = Returned(Err(ButtonParseError(UnknownButton(57))))

-----------------------------------------------------------------------------
(* C18: each of the seven payload decoders, called directly on a slice      *)
(* whose length n differs from its fixed payload length L (2 button, 3      *)
(* color, 16 quaternion, 12 accelerometer, gyro, magnetometer, location),   *)
(* returns Err(InvalidLength(L, n)) without reading any payload byte (no    *)
(* index operation is made, so none is out of bounds, and the result is the *)
(* same for every content), and for a slice of length L never returns       *)
(* InvalidLength.                                                           *)
DecoderLen(fn) ==
    CASE fn = "ButtonEvent::try_from"     -> 2
      [] fn = "ColorEvent::try_from"      -> 3
      [] fn = "QuaternionEvent::try_from" -> 16
      [] OTHER                            -> 12

C18_DecoderLength ==
    call.fn \in DecoderFns =>
        /\ pc # "panic"
        /\ ret # NoRet =>
             LET L == DecoderLen(call.fn)
                 n == Len(call.data)
             IN  /\ n # L => ret.val = Err(InvalidLength(L, n))
                 /\ n = L => ~IsErr(ret.val, "InvalidLength")

\* the quaternion decoder on 17 bytes
C18_Witness ==
    /\ call.fn = "QuaternionEvent::try_from"
    /\ Len(call.data) = 17
    /\ ret = Returned(Err(InvalidLength(16, 17)))

-----------------------------------------------------------------------------
(* C19: the float payload decoders take their fields from consecutive       *)
(* 4-byte groups in order, each group read little-endian (byte 0 least      *)
(* significant): quaternion bytes 0..4, 4..8, 8..12, 12..16 give x, y, z,   *)
(* w; accelerometer, gyro and magnetometer bytes 0..4, 4..8, 8..12 give x,  *)
(* y, z; location gives latitude, longitude, altitude; any bit pattern is   *)
(* accepted (NaN and the infinities too).                                   *)

\* the bit pattern f is the one whose little-endian bytes are the group
\* of 4 bytes of data that starts at (0-based) offset o
IsLeF32At(f, data, o) ==
    /\ f \in (0..65535) \X (0..65535)
    /\ F32ToLeBytes(f) = SubSeq(data, o + 1, o + 4)
    /\ f[2] = data[o + 2] * 256 + data[o + 1]
    /\ f[1] = data[o + 4] * 256 + data[o + 3]

C19_FloatFields ==
    (call.fn \in DecoderFns \ {"ButtonEvent::try_from", "ColorEvent::try_from"}
        /\ ret # NoRet /\ Len(call.data) = DecoderLen(call.fn)) =>
        LET d == call.data
            e == ret.val.val
        IN  /\ ret.val.ok
            /\ call.fn = "QuaternionEvent::try_from" =>
                 /\ e.kind = "QuaternionEvent"
                 /\ IsLeF32At(e.x, d, 0) /\ IsLeF32At(e.y, d, 4)
                 /\ IsLeF32At(e.z, d, 8) /\ IsLeF32At(e.w, d, 12)
            /\ call.fn \in {"AccelerometerEvent::try_from", "GyroEvent::try_from",
                            "MagnetometerEvent::try_from"} =>
                 /\ e.kind = CASE call.fn = "AccelerometerEvent::try_from" -> "AccelerometerEvent"
                               [] call.fn = "GyroEvent::try_from" -> "GyroEvent"
                               [] OTHER -> "MagnetometerEvent"
                 /\ IsLeF32At(e.x, d, 0) /\ IsLeF32At(e.y, d, 4) /\ IsLeF32At(e.z, d, 8)
            /\ call.fn = "LocationEvent::try_from" =>
                 /\ e.kind = "LocationEvent"
                 /\ IsLeF32At(e.latitude, d, 0) /\ IsLeF32At(e.longitude, d, 4)
                 /\ IsLeF32At(e.altitude, d, 8)
            /\ (call.fn = "QuaternionEvent::try_from" /\ d = QuaternionTestInput) =>
                 \* -2.1893446 = 0xC00C1E39, -0.81627196 = 0xBF50F733,
                 \* 0.29387614 = 0x3E9676EF, 0.0
                 e = [kind |-> "QuaternionEvent", x |-> <<49164, 7737>>,
                      y |-> <<48976, 63283>>, z |-> <<16022, 30447>>, w |-> <<0, 0>>]

\* 1.2 = 0x3F99999A, 2.3 = 0x40133333, 3.4 = 0x4059999A
C19_Witness ==
    /\ call = [fn |-> "LocationEvent::try_from", data |-> LocationTestInput]
    /\ ret = Returned(Ok([kind |-> "LocationEvent", latitude |-> <<16281, 39322>>,
                          longitude |-> <<16403, 13107>>,
                          altitude |-> <<16473, 39322>>]))

-----------------------------------------------------------------------------
(* C20: try_f32_from_le_bytes returns Ok for every slice of exactly 4 bytes *)
(* and Err(InvalidFloatSize(n)) for every slice of length n different from  *)
(* 4, shorter or longer, n being the slice's length.                        *)
C20_F32Size ==
    (call.fn = "try_f32_from_le_bytes" /\ ret # NoRet) =>
        LET n == Len(call.data)
        IN  /\ n = 4 => (ret.val.ok /\ IsLeF32At(ret.val.val, call.data, 0))
            /\ n # 4 => ret.val = Err(InvalidFloatSize(n))
            /\ call.data = <<57, 30, 12, 192>> => ret.val = Ok(<<49164, 7737>>)
            /\ call.data = <<30, 12, 192>> => ret.val = Err(InvalidFloatSize(3))

\* a slice of 5 bytes
C20_Witness ==
    /\ call = [fn |-> "try_f32_from_le_bytes", data |-> <<0, 0, 128, 255, 0>>]
    /\ ret = Returned(Err(InvalidFloatSize(5)))

-----------------------------------------------------------------------------
(* C21: parse is deterministic and keeps no state between calls: two calls  *)
(* on equal buffers return identical result sequences, whatever other       *)
(* buffers were parsed in between, and the input buffer is left unchanged   *)
(* by the call.                                                             *)
C21_Deterministic ==
    /\ [](\A i \in 1..Len(ret.val) :
              ret.val[i].input = input =>
                  \* the later call returns too, and returns the same
                  /\ pc # "panic"
                  /\ pc = "done" => ret.val[i].result = result)
    /\ [][pc = "loop" => input' = input]_vars

\* "!B11:" parsed, then a buffer that ends in a marker, then "!B11:" again
C21_Witness ==
    /\ pc = "done"
    /\ call.n = 3
    /\ input = <<33, 66, 49, 49, 58>>
    /\ Len(ret.val) = 2
    /\ ret.val[1].input = input
    /\ ret.val[2].input = <<0, 33>>
    /\ ret.val[1].result = result
    /\ Len(result) = 1

-----------------------------------------------------------------------------
(* C22: parse terminates on every finite buffer: the scan position only     *)
(* increases, every step of the loop examines the byte at the position and  *)
(* moves on by one, so that every byte position is examined at most once,   *)
(* and the scan ends when the position reaches the end of the buffer or the *)
(* result bound is hit; this includes buffers of odd length, buffers ending *)
(* in '!' and buffers made only of '!' bytes.                               *)
C22_Terminates ==
    /\ <>(pc = "done")
    /\ [](pc = "done" =>
            \/ pos = Len(input)
            \/ build.heapless /\ Len(result) = build.MAX_RESULTS)
    /\ [][ /\ pos' >= pos
           /\ pos' <= Len(input)
           /\ (pc = "loop" /\ pc' = "loop") => pos' = pos + 1
           /\ pc = "loop" => pc' \in {"loop", "done"}
         ]_vars

\* five marker bytes
C22_Witness ==
    /\ pc = "done"
    /\ ~build.heapless
    /\ input = <<33, 33, 33, 33, 33>>
    /\ pos = 5
    /\ Len(result) = 2

-----------------------------------------------------------------------------
(* C23: parse yields Ok(event) for a marker at position p only if the whole *)
(* frame lies inside the buffer (p + L + 3 <= buffer length, L the payload  *)
(* length of the command id at p + 1), the byte at p + L + 2 equals (~sum   *)
(* of the bytes p .. p + L + 1) & 0xFF, and the event's kind is the one the *)
(* command id maps to; a truncated or checksum-failing frame never gives an *)
(* event.                                                                   *)
C23_OkOnlyFromValidFrame ==
    [][ AtCommandId =>
            LET p  == pos - 1
                id == input[pos + 1]
                r  == result'[Len(result')]
            IN  /\ Len(result') = Len(result) + 1
                /\ r.ok =>
                     /\ id \in KnownIds
                     /\ p + WireLen(id) + 3 <= Len(input)
                     /\ (SumBytes(SubSeq(input, p + 1, p + WireLen(id) + 2))
                            + input[p + WireLen(id) + 3]) % 256 = 255
                     /\ r.val.kind = WireKind(id)
                /\ (id \in KnownIds /\ p + WireLen(id) + 3 > Len(input)) => ~r.ok
                /\ (id \in KnownIds /\ p + WireLen(id) + 3 <= Len(input)
                        /\ input[p + WireLen(id) + 3]
                               # Checksum(SubSeq(input, p + 1, p + WireLen(id) + 2)))
                       => ~r.ok
      ]_vars

\* a gyro frame after a noise byte gives a gyro event
C23_Witness ==
    /\ pc = "done"
    /\ input = <<0>> \o Frame(71, Ramp(12))
    /\ Len(result) = 1
    /\ result[1].ok
    /\ result[1].val.kind = "GyroEvent"

-----------------------------------------------------------------------------
(* C24: for buffers that are concatenations of complete valid frames in     *)
(* which no byte after the marker (payload bytes and checksum byte) equals  *)
(* 0x21 ('!'), possibly separated by non-marker noise bytes, parse returns  *)
(* exactly one Ok result per frame, in order, and nothing else.             *)

\* a valid frame at offset o whose payload and checksum bytes are not the marker
MarkerFreeFrameAt(buf, o) ==
    /\ ValidFrameAt(buf, o)
    /\ \A k \in (o + 3)..(o + WireLen(buf[o + 2]) + 3) : buf[k] # Marker

\* the offsets of the frames of a buffer made of marker-free valid frames and
\* non-marker noise bytes, <<..., -1>> when the buffer is not made that way
RECURSIVE NoisyFrameOffsets(_, _)
NoisyFrameOffsets(buf, o) ==
    IF o = Len(buf) THEN <<>>
    ELSE IF buf[o + 1] # Marker THEN NoisyFrameOffsets(buf, o + 1)
    ELSE IF ~MarkerFreeFrameAt(buf, o) THEN <<-1>>
    ELSE <<o>> \o NoisyFrameOffsets(buf, o + WireLen(buf[o + 2]) + 3)

IsNoisyFrameConcat(buf) ==
    LET os == NoisyFrameOffsets(buf, 0)
    IN  Len(os) >= 1 /\ os[Len(os)] # -1

C24_OneOkPerFrameAmongNoise ==
    (pc = "done" /\ IsNoisyFrameConcat(input)) =>
        LET os == NoisyFrameOffsets(input, 0)
        IN  /\ Len(result) = Len(os)
            /\ \A i \in 1..Len(os) :
                   /\ result[i].ok
                   /\ IsOkEventOf(result[i], input, os[i])

\* a colour frame, two noise bytes, a quaternion frame
C24_Witness ==
    /\ pc = "done"
    /\ input = Frame(67, <<1, 2, 3>>) \o <<0, 120>> \o Frame(81, Ramp(16))
    /\ IsNoisyFrameConcat(input)
    /\ Len(result) = 2
    /\ result[1].val.kind = "ColorEvent"
    /\ result[2].val.kind = "QuaternionEvent"

-----------------------------------------------------------------------------
(* C25: every Err(InvalidLength(e, a)) returned by parse has e in {5, 6,    *)
(* 15, 19} and 2 <= a < e with a = buffer length minus the marker's         *)
(* position: it is reported only when the buffer ends before the frame is   *)
(* complete; a frame cut short in the middle of the buffer (further bytes   *)
(* follow it) is never reported as InvalidLength: it is completed with the  *)
(* bytes that follow and then checked by checksum.                          *)
C25_InvalidLengthOnlyAtEnd ==
    /\ [](\A i \in 1..Len(result) :
              IsErr(result[i], "InvalidLength") =>
                  /\ result[i].val.expected \in {5, 6, 15, 19}
                  /\ 2 <= result[i].val.actual
                  /\ result[i].val.actual < result[i].val.expected)
    /\ [][ AtCommandId =>
            LET p  == pos - 1
                id == input[pos + 1]
                r  == result'[Len(result')]
            IN  /\ IsErr(r, "InvalidLength") =>
                     /\ id \in KnownIds
                     /\ r.val.expected = WireLen(id) + 3
                     /\ r.val.actual = Len(input) - p
                     /\ Len(input) - p < WireLen(id) + 3
                /\ (id \in KnownIds /\ Len(input) - p >= WireLen(id) + 3) =>
                     LET last == input[p + WireLen(id) + 3]
                         sum  == Checksum(SubSeq(input, p + 1, p + WireLen(id) + 2))
                     IN  /\ ~IsErr(r, "InvalidLength")
                         /\ last # sum => r = Err(InvalidCrc(last, sum))
                         /\ last = sum => ~IsErr(r, "InvalidCrc")
         ]_vars

\* "!B1" cut short by the frame "!B11:": the first candidate frame is
\* 21 42 31 21 42, checked by checksum
C25_Witness ==
    /\ pc = "done"
    /\ input = <<33, 66, 49>> \o Frame(66, <<49, 49>>)
    /\ Len(result) = 2
    /\ IsErr(result[1], "InvalidCrc")
    /\ result[1].val.received = 66
    /\ result[2].ok

-----------------------------------------------------------------------------
(* C26: whenever the scanner is in state ParseCommand at position pos,      *)
(* pos >= 1 and input[pos - 1] is the marker '!' that was seen in state     *)
(* SeekStart at the previous step; the state is SeekStart at position 0 and *)
(* is reset to SeekStart after every produced result, so the slice          *)
(* input[pos - 1 ..] passed to extract_and_parse_command always starts with *)
(* '!' and has at least 2 bytes.                                            *)
C26_ParseCommandAfterMarker ==
    /\ [](state = "ParseCommand" => (pos >= 1 /\ input[pos] = Marker))
    /\ [](pos = 0 => state = "SeekStart")
    /\ [][ /\ (state' = "ParseCommand" /\ pos' # pos) =>
                 /\ state = "SeekStart"
                 /\ pos' = pos + 1
                 /\ input[pos + 1] = Marker
           /\ Len(result') > Len(result) => state' = "SeekStart"
           /\ AtCommandId =>
                 LET slice == Slice(input, pos - 1, Len(input))
                 IN  /\ Len(slice) >= 2
                     /\ slice[1] = Marker
                     /\ Len(result') = Len(result) + 1
                     /\ result'[Len(result')]
                            = extract_and_parse_command(build.features, slice)
         ]_vars

\* the scanner in ParseCommand at the 'B' of "\x00!B1"
C26_Witness ==
    /\ pc = "loop"
    /\ state = "ParseCommand"
    /\ pos = 2
    /\ input = <<0, 33, 66, 49>>
    /\ result = <<>>

-----------------------------------------------------------------------------
(* C27: parse returns at most floor(n / 2) results for a buffer of n bytes: *)
(* each result consumes a distinct pair of adjacent positions (marker,      *)
(* command id), and the pairs of different results never overlap.           *)
C27_AtMostHalf ==
    /\ [](/\ 2 * Len(result) <= pos
          /\ pos <= Len(input)
          /\ Len(result) <= Len(input) \div 2)
    /\ [](pc = "done" =>
            LET ms == MarkersWithId(input)
            IN  /\ Len(result) = Len(ms)
                /\ \A i \in 1..Len(ms) : input[ms[i] + 1] = Marker
                /\ \A i, j \in 1..Len(ms) : i < j => ms[i] + 2 <= ms[j])
    /\ [][ AtCommandId =>
            \* the pair (pos - 1, pos) lies after the pairs of the results before
            /\ 2 * Len(result) <= pos - 1
            /\ Len(result') = Len(result) + 1
            /\ pos' = pos + 1
         ]_vars

\* four marker bytes: the pairs (0, 1) and (2, 3)
C27_Witness ==
    /\ pc = "done"
    /\ input = <<33, 33, 33, 33>>
    /\ result = <<Err(UnknownEvent(Some(33))), Err(UnknownEvent(Some(33)))>>

-----------------------------------------------------------------------------
(* C28: on every call of check_crc made through parse the 16-bit            *)
(* accumulator stays at or below 18 * 255 = 4590, so the addition           *)
(* `sum += byte` never overflows 16 bits (no wraparound and no overflow     *)
(* panic), whatever the buffer holds.                                       *)
C28_CrcSumInRange ==
    /\ [](pc # "panic")
    /\ [][ (AtCommandId /\ input[pos + 1] \in KnownIds
                /\ Remaining >= WireLen(input[pos + 1]) + 3) =>
            \* the bytes check_crc is called on: the marker, the id, the payload
            LET data == SubSeq(input, pos, pos + WireLen(input[pos + 1]) + 1)
            IN  /\ Len(data) <= 18
                /\ SumBytes(data) <= 18 * 255
                /\ SumBytes(data) < 65536
                /\ ~crc_sum_overflows(data)
                /\ crc_sum(data) = SumBytes(data)
                /\ \A k \in 0..Len(data) : crc_sum(SubSeq(data, 1, k)) <= 4590
         ]_vars

\* a quaternion frame with sixteen 0xFF payload bytes: the sum is 4194
C28_Witness ==
    /\ pc = "done"
    /\ input = Frame(81, [i \in 1..16 |-> 255])
    /\ crc_sum(SubSeq(input, 1, 18)) = 4194
    /\ Len(result) = 1
    /\ result[1].ok

-----------------------------------------------------------------------------
(* C29: parse never returns Err(InvalidFloatSize(_)) and never returns an   *)
(* InvalidLength raised by a payload decoder (expected value 2, 3, 12 or    *)
(* 16): once parse_command has accepted the frame length, the payload slice *)
(* it passes on has exactly the decoder's fixed length and every float      *)
(* sub-slice has exactly 4 bytes.                                           *)
C29_NoDecoderLengthError ==
    /\ [](\A i \in 1..Len(result) :
              /\ ~IsErr(result[i], "InvalidFloatSize")
              /\ IsErr(result[i], "InvalidLength") =>
                     result[i].val.expected \notin {2, 3, 12, 16})
    /\ [][ (AtCommandId /\ input[pos + 1] \in KnownIds
                /\ Remaining >= WireLen(input[pos + 1]) + 3) =>
            LET L       == WireLen(input[pos + 1])
                kind    == ControllerDataPackageType_try_from(input[pos + 1]).val
                frame   == CandidateFrame(input, pos - 1)
                \* &command_input[data_start..=data_end]
                payload == Slice(frame, 2, (Len(frame) - 2) + 1)
                r       == result'[Len(result')]
            IN  /\ Len(frame) = data_len(kind) + 3
                /\ Len(payload) = L
                /\ payload = SubSeq(input, pos + 2, pos + L + 1)
                /\ L \in {12, 16} =>
                       \A g \in 0..((L \div 4) - 1) :
                           /\ Len(Slice(payload, 4 * g, 4 * g + 4)) = 4
                           /\ try_f32_from_le_bytes(Slice(payload, 4 * g, 4 * g + 4)).ok
                /\ ~IsErr(r, "InvalidLength")
                /\ ~IsErr(r, "InvalidFloatSize")
                /\ (~r.ok /\ ~IsErr(r, "InvalidCrc")) => IsErr(r, "ButtonParseError")
         ]_vars

\* an accelerometer frame: its 12 payload bytes are decoded
C29_Witness ==
    /\ pc = "done"
    /\ input = Frame(65, Ramp(12))
    /\ Len(result) = 1
    /\ result[1].ok
    /\ result[1].val.kind = "AccelerometerEvent"
    /\ F32ToLeBytes(result[1].val.z) = <<153, 170, 187, 204>>

-----------------------------------------------------------------------------
(* C30: the result parse produces for the first marker, at position p with  *)
(* a known command id of payload length L, depends only on the bytes        *)
(* input[p .. min(p + L + 3, buffer length)): two buffers of equal length   *)
(* that agree on positions 0 .. p + L + 2 give the same first result,       *)
(* whatever bytes follow the frame.                                         *)

\* buffers of the length of buf that agree with buf on the positions before
\* `from`: one of the later bytes, or all of them, set to 0x00, '!' or 0xFF
Variants(buf, from) ==
    {buf}
    \cup {[buf EXCEPT ![j] = c] : j \in (from + 1)..Len(buf), c \in {0, 33, 255}}
    \cup {[j \in 1..Len(buf) |-> IF j <= from THEN buf[j] ELSE c] : c \in {0, 33, 255}}

\* the first result of parse on a buffer whose first marker met is at p
FirstResultOf(features, buf, p) ==
    extract_and_parse_command(features, Slice(buf, p, Len(buf)))

C30_FirstResultLocal ==
    (pc = "done" /\ MarkersWithId(input) # <<>>
        /\ input[MarkersWithId(input)[1] + 2] \in KnownIds) =>
        LET p == MarkersWithId(input)[1]
            L == WireLen(input[p + 2])
        IN  /\ Len(result) >= 1
            /\ \A other \in Variants(input, Min(p + L + 3, Len(input))) :
                   /\ Len(other) = Len(input)
                   /\ SubSeq(other, 1, Min(p + L + 3, Len(input)))
                          = SubSeq(input, 1, Min(p + L + 3, Len(input)))
                   /\ MarkersWithId(other)[1] = p
                   /\ FirstResultOf(build.features, other, p) = result[1]

\* "!B11:" followed by a marker byte
C30_Witness ==
    /\ pc = "done"
    /\ input = Frame(66, <<49, 49>>) \o <<33>>
    /\ Cardinality(Variants(input, 5)) = 3
    /\ result = <<Ok([kind |-> "ButtonEvent", button |-> "Button1", state |-> "Pressed"])>>

====
